---- MODULE Spec2Model ----
(***************************************************************************)
(* Quote aggregation API: POST /api/quotes (validateQuoteRequest, then     *)
(* QuoteController.getQuotes), ProviderService, VehicleService,            *)
(* CacheService and the configuration they read.                           *)
(*                                                                         *)
(* Conventions of the model                                                *)
(*  - money is kept in cents where the code keeps 2 decimals (price), and  *)
(*    in whole currency units where the code keeps integers (retail_price);*)
(*    a markup m is kept as the integer 100*m;                             *)
(*  - a string that the code indexes (vin, zip) is a tuple of characters;  *)
(*  - a template string is the tuple of its interpolated parts;            *)
(*  - time is in seconds.                                                  *)
(***************************************************************************)
EXTENDS Integers, Sequences, FiniteSets, Bags, TLC

(***************************************************************************)
(* Bounds of the model.                                                    *)
(***************************************************************************)
MaxReq == 2
TickSeconds == 300
MaxTime == 900

(***************************************************************************)
(* Generic helpers.                                                        *)
(***************************************************************************)
Range(s) == {s[i] : i \in 1..Len(s)}

Includes(s, x) == \E i \in 1..Len(s) : s[i] = x

Min2(a, b) == IF a <= b THEN a ELSE b

\* Math.round(num / den) for num >= 0, den > 0 and even: round half up.
MathRound(num, den) == (num + (den \div 2)) \div den

RECURSIVE Concat(_)
Concat(ss) == IF ss = <<>> THEN <<>> ELSE Head(ss) \o Concat(Tail(ss))

\* The object without properties, {}.
EmptyObject == [k \in {} |-> k]

\* dealer_id absent from the body (undefined) or null.
Null == "<null>"

\* JavaScript truthiness of a string-or-null value.
Truthy(d) == d # Null /\ d # ""

(***************************************************************************)
(* config: redisConfig, providerConfig, stateRestrictions.                 *)
(***************************************************************************)
redisConfigTtl == 600

\* Object.keys(providerConfig.providers), in insertion order.
ProviderKeys == <<"providerA", "providerB", "providerC", "providerD">>

providers ==
    [providerA |-> [name |-> "Provider A", products |-> <<"vsc", "gap">>,
                    markup |-> 120, priority |-> 1],
     providerB |-> [name |-> "Provider B", products |-> <<"vsc", "tire", "dent">>,
                    markup |-> 115, priority |-> 2],
     providerC |-> [name |-> "Provider C", products |-> <<"gap">>,
                    markup |-> 125, priority |-> 3],
     providerD |-> [name |-> "Provider D", products |-> <<"tire", "dent">>,
                    markup |-> 130, priority |-> 4]]

stateRestrictions == [gap |-> <<"NY", "CA">>, vsc |-> <<>>]

\* stateRestrictions[product] && stateRestrictions[product].includes(state)
IsRestricted(product, state) ==
    /\ product \in DOMAIN stateRestrictions
    /\ Includes(stateRestrictions[product], state)

(***************************************************************************)
(* VehicleService.                                                         *)
(***************************************************************************)
yearCodes ==
    [A |-> 2010, B |-> 2011, C |-> 2012, D |-> 2013, E |-> 2014,
     F |-> 2015, G |-> 2016, H |-> 2017, J |-> 2018, K |-> 2019,
     L |-> 2020, M |-> 2021, N |-> 2022, P |-> 2023, R |-> 2024]

decodeModelYear(yearCode) ==
    IF yearCode \in DOMAIN yearCodes THEN yearCodes[yearCode] ELSE 2018

\* The result null is the record with found = FALSE. Make, model and trim are
\* read by no quote generator; only the year is.
getVehicleDetails(vin) ==
    IF Len(vin) # 17 THEN [found |-> FALSE]
    ELSE [found |-> TRUE, vin |-> vin, year |-> decodeModelYear(vin[10]), trim |-> "XLT"]

zipPrefixes ==
    [d \in 0..9 |->
        CASE d = 0 -> "CT" [] d = 1 -> "NY" [] d = 2 -> "DC" [] d = 3 -> "FL"
          [] d = 4 -> "MI" [] d = 5 -> "LA" [] d = 6 -> "TX" [] d = 7 -> "TX"
          [] d = 8 -> "CO" [] d = 9 -> "CA"]

getStateFromZip(zip) ==
    IF zip[1] \in DOMAIN zipPrefixes THEN zipPrefixes[zip[1]] ELSE "CA"

(***************************************************************************)
(* ProviderService: the simulated provider and its quote generators.       *)
(* new Date().getFullYear() is the year the server runs in.                *)
(***************************************************************************)
currentYear == 2026

\* term.miles = null is written 0.
RawQuote(providerId, productType, tier, quoteName, months, miles, deductible, retail) ==
    [product_type |-> productType,
     product_id   |-> <<providerId, productType, tier>>,
     provider     |-> [id |-> providerId, name |-> providers[providerId].name],
     name         |-> quoteName,
     term         |-> [months |-> months, miles |-> miles],
     deductible   |-> deductible,
     retail_price |-> retail]

\* Math.round(base * ageFactor * mileageFactor), with
\* ageFactor = 1 + age * 0.1 and mileageFactor = 1 + (mileage / 20000) * 0.15,
\* computed exactly: base/10 * (10 + age) * (400000 + 3 * mileage) / 400000.
VscRetail(base, vehicleAge, mileage) ==
    MathRound((base \div 10) * (10 + vehicleAge) * (400000 + 3 * mileage), 400000)

\* Mutant: the tiers exclude one another, only the best one is quoted.
generateVscQuotesBestTier(providerId, vehicle) ==
    LET vehicleAge == currentYear - vehicle.year
        mileage    == vehicle.mileage
    IN  IF vehicleAge > 12 \/ mileage > 150000 THEN <<>>
        ELSE IF vehicleAge <= 7 /\ mileage <= 85000
             THEN << RawQuote(providerId, "vsc", "premium_36_36", "Premium Coverage",
                              36, 36000, 100, VscRetail(800, vehicleAge, mileage)) >>
        ELSE IF vehicleAge <= 10 /\ mileage <= 100000
             THEN << RawQuote(providerId, "vsc", "standard_48_48", "Standard Coverage",
                              48, 48000, 100, VscRetail(700, vehicleAge, mileage)) >>
        ELSE IF vehicleAge <= 12 /\ mileage <= 120000
             THEN << RawQuote(providerId, "vsc", "basic_60_60", "Basic Coverage",
                              60, 60000, 250, VscRetail(500, vehicleAge, mileage)) >>
        ELSE <<>>

generateVscQuotes(providerId, vehicle) ==
    LET vehicleAge == currentYear - vehicle.year
        mileage    == vehicle.mileage
    IN  IF vehicleAge > 12 \/ mileage > 150000 THEN <<>>
        ELSE
          (IF vehicleAge <= 7 /\ mileage <= 85000
             THEN << RawQuote(providerId, "vsc", "premium_36_36", "Premium Coverage",
                              36, 36000, 100, VscRetail(800, vehicleAge, mileage)) >>
             ELSE <<>>)
          \o
          (IF vehicleAge <= 10 /\ mileage <= 100000
             THEN << RawQuote(providerId, "vsc", "standard_48_48", "Standard Coverage",
                              48, 48000, 100, VscRetail(700, vehicleAge, mileage)) >>
             ELSE <<>>)
          \o
          (IF vehicleAge <= 12 /\ mileage <= 120000
             THEN << RawQuote(providerId, "vsc", "basic_60_60", "Basic Coverage",
                              60, 60000, 250, VscRetail(500, vehicleAge, mileage)) >>
             ELSE <<>>)

\* basePrice = price * 0.02; Premium retail Math.round(basePrice * 1.2),
\* Standard retail Math.round(basePrice).
generateGapQuotes(providerId, options) ==
    IF options.price = 0 THEN <<>>
    ELSE << RawQuote(providerId, "gap", "premium", "Premium GAP",
                     36, 0, 0, MathRound(options.price * 24, 1000)),
            RawQuote(providerId, "gap", "standard", "Standard GAP",
                     36, 0, 0, MathRound(options.price * 2, 100)) >>

generateTireQuotes(providerId) ==
    << RawQuote(providerId, "tire", "premium", "Premium Tire & Wheel", 36, 0, 0, 495),
       RawQuote(providerId, "tire", "basic", "Basic Tire & Wheel", 36, 0, 50, 395) >>

generateDentQuotes(providerId) ==
    << RawQuote(providerId, "dent", "repair", "Dent & Ding Protection", 36, 0, 0, 395) >>

\* The quotes one requested product type yields from one provider.
QuotesForProduct(providerId, request, productType) ==
    IF ~Includes(providers[providerId].products, productType) THEN <<>>
    ELSE CASE productType = "vsc"  -> generateVscQuotes(providerId, request.vehicle)
           [] productType = "gap"  -> generateGapQuotes(providerId, request.options)
           [] productType = "tire" -> generateTireQuotes(providerId)
           [] productType = "dent" -> generateDentQuotes(providerId)
           [] OTHER -> <<>>

simulateProviderResponse(providerId, request) ==
    [quotes |-> Concat([i \in 1..Len(request.options.products) |->
                          QuotesForProduct(providerId, request, request.options.products[i])]),
     meta   |-> [vehicle_eligibility |-> "eligible"]]

\* Insertion sort of provider ids by priority (a stable sort, as Array.sort is).
RECURSIVE InsertByPriority(_, _)
InsertByPriority(sorted, p) ==
    IF sorted = <<>> THEN <<p>>
    ELSE IF providers[p].priority < providers[Head(sorted)].priority
         THEN <<p>> \o sorted
         ELSE <<Head(sorted)>> \o InsertByPriority(Tail(sorted), p)

RECURSIVE SortByPriority(_)
SortByPriority(ids) ==
    IF ids = <<>> THEN <<>>
    ELSE InsertByPriority(SortByPriority(SubSeq(ids, 1, Len(ids) - 1)), ids[Len(ids)])

\* Mutant: every configured provider is eligible.
MatchesAnyProducts(providerId, products) == TRUE

HasMatchingProducts(providerId, products) ==
    \E i \in 1..Len(products) : Includes(providers[providerId].products, products[i])

getEligibleProviders(products) ==
    SortByPriority(SelectSeq(ProviderKeys, LAMBDA p : HasMatchingProducts(p, products)))

(***************************************************************************)
(* QuoteController.getQuotes: the synchronous parts.                       *)
(***************************************************************************)
\* Mutant: the products enter the key in a canonical order.
cacheKeyCanonical(b) ==
    LET order  == <<"vsc", "gap", "tire", "dent">>
        sorted == Concat([k \in 1..Len(order) |->
                            SelectSeq(b.products, LAMBDA x : x = order[k])])
    IN  << "quotes", b.vin, b.zip, b.mileage, b.price, sorted,
           IF Truthy(b.dealer_id) THEN b.dealer_id ELSE "none" >>

\* `quotes:${vin}:${zip}:${mileage}:${price}:${products.join(",")}:${dealer_id || "none"}`
\* The parts contain no ":" and the product tokens no ",", so the tuple of
\* the parts identifies the string.
cacheKey(b) ==
    << "quotes", b.vin, b.zip, b.mileage, b.price, b.products,
       IF Truthy(b.dealer_id) THEN b.dealer_id ELSE "none" >>

\* JSON.stringify / JSON.parse of a response: numbers, strings and arrays only.
Stringify(response) == [json |-> response]

Parse(text) == text.json

stateRestrictedProducts(products, state) ==
    SelectSeq(products, LAMBDA product : IsRestricted(product, state))

\* Mutant: the restricted products are not filtered out.
availableProductsUnfiltered(products, state) == products

availableProducts(products, state) ==
    LET restricted == stateRestrictedProducts(products, state)
    IN  SelectSeq(products, LAMBDA product : ~Includes(restricted, product))

IneligibleResponse(restricted, state) ==
    [buckets |-> EmptyObject,
     meta |-> [vehicle_eligibility |-> "ineligible",
               coverage_disclaimer |-> "No products available in your state.",
               state_restrictions  |-> [restricted_products |-> restricted,
                                        state |-> state]]]

providerRequest(b, vehicleDetails, state, available) ==
    [vehicle  |-> [vin |-> b.vin, year |-> vehicleDetails.year,
                   trim |-> vehicleDetails.trim, mileage |-> b.mileage],
     customer |-> [zip |-> b.zip, state |-> state],
     dealer   |-> [id   |-> IF Truthy(b.dealer_id) THEN b.dealer_id ELSE "direct",
                   name |-> IF Truthy(b.dealer_id) THEN "Dealer Partner"
                            ELSE "Direct Consumer"],
     options  |-> [price |-> b.price, products |-> available]]

\* Mutant: the markup of the provider is not applied.
RetailPriceWithoutMarkup(quote, providerId) ==
    LET retailPrice == quote.retail_price * 100
    IN  MathRound(retailPrice * 100, 100)

\* retailPrice = quote.retail_price * (provider.markup || 1), in hundredths;
\* price = Math.round(retailPrice * 100) / 100, in cents.
MarkedUpPrice(quote, providerId) ==
    LET retailPrice == quote.retail_price * providers[providerId].markup
    IN  MathRound(retailPrice * 100, 100)

DisplayQuote(quote, providerId) ==
    [id         |-> quote.product_id,
     provider   |-> quote.provider.name,
     name       |-> quote.name,
     term       |-> quote.term.months,
     mileage    |-> quote.term.miles,
     deductible |-> quote.deductible,
     price      |-> MarkedUpPrice(quote, providerId),
     tags       |-> <<>>]

\* Mutant: a provider's quotes go into every bucket, whatever their product_type.
ProviderBucketPartAnyType(result, providerId, product, available) ==
    IF result.value # "object" \/ ~Includes(available, product) THEN <<>>
    ELSE [i \in 1..Len(result.quotes) |-> DisplayQuote(result.quotes[i], providerId)]

\* What one provider's result adds to the bucket of `product`.
\* A result is [value |-> "null"] (the call failed) or [value |-> "object", quotes |-> ...].
ProviderBucketPart(result, providerId, product, available) ==
    IF result.value # "object" \/ ~Includes(available, product) THEN <<>>
    ELSE LET mine == SelectSeq(result.quotes, LAMBDA q : q.product_type = product)
         IN  [i \in 1..Len(mine) |-> DisplayQuote(mine[i], providerId)]

\* Mutant: one failed provider empties the batch.
MergedBucketAborting(results, order, product, available) ==
    IF \E i \in 1..Len(order) : results[order[i]].value = "null" THEN <<>>
    ELSE Concat([i \in 1..Len(order) |->
                   ProviderBucketPart(results[order[i]], order[i], product, available)])

\* aggregatedQuotes[product] before the sort: Object.keys(providerQuotes) is
\* the order in which getQuotesFromAllProviders inserted the provider ids.
MergedBucket(results, order, product, available) ==
    Concat([i \in 1..Len(order) |->
              ProviderBucketPart(results[order[i]], order[i], product, available)])

\* Mutant: a quote is inserted before the quotes of equal price.
RECURSIVE InsertBeforeEqualPrice(_, _)
InsertBeforeEqualPrice(sorted, q) ==
    IF sorted = <<>> THEN <<q>>
    ELSE IF q.price - Head(sorted).price <= 0
         THEN <<q>> \o sorted
         ELSE <<Head(sorted)>> \o InsertBeforeEqualPrice(Tail(sorted), q)

\* quotes.sort((a, b) => a.price - b.price): Array.prototype.sort is stable.
RECURSIVE InsertByPrice(_, _)
InsertByPrice(sorted, q) ==
    IF sorted = <<>> THEN <<q>>
    ELSE IF q.price - Head(sorted).price < 0
         THEN <<q>> \o sorted
         ELSE <<Head(sorted)>> \o InsertByPrice(Tail(sorted), q)

RECURSIVE SortByPrice(_)
SortByPrice(quotes) ==
    IF quotes = <<>> THEN <<>>
    ELSE InsertByPrice(SortByPrice(SubSeq(quotes, 1, Len(quotes) - 1)),
                       quotes[Len(quotes)])

\* quotes[index].tags.push(tag), index counted from 0.
PushTag(quotes, index, tag) ==
    [quotes EXCEPT ![index + 1].tags = Append(@, tag)]

BestValueTags(quotes) == PushTag(quotes, 0, "Best Value")

\* Mutant: "Most Popular" always goes to index 1.
MostPopularAtIndexOne(quotes) == PushTag(quotes, 1, "Most Popular")

MostPopularTags(quotes) ==
    LET popularIndex == Min2(1, Len(quotes) - 1)
    IN  PushTag(quotes, popularIndex, "Most Popular")

DealerTags(quotes, dealer_id) ==
    IF Truthy(dealer_id) /\ Len(quotes) > 2
    THEN PushTag(quotes, 2, "Dealer Recommended")
    ELSE quotes

TagBucket(quotes, dealer_id) ==
    IF Len(quotes) = 0 THEN quotes
    ELSE DealerTags(MostPopularTags(BestValueTags(SortByPrice(quotes))), dealer_id)

StateRestrictionsMeta(restricted, state) ==
    IF Len(restricted) > 0
    THEN [restricted_products |-> restricted, state |-> state]
    ELSE EmptyObject

\* The eligible envelope: { ...aggregatedQuotes, meta }.
EligibleResponse(b, state, results, order) ==
    LET restricted == stateRestrictedProducts(b.products, state)
        available  == availableProducts(b.products, state)
    IN  [buckets |-> [product \in Range(available) |->
                        TagBucket(MergedBucket(results, order, product, available),
                                  b.dealer_id)],
         meta |-> [vehicle_eligibility |-> "eligible",
                   coverage_disclaimer |->
                     "Coverage is subject to terms and conditions of the service contract.",
                   state_restrictions  |-> StateRestrictionsMeta(restricted, state)]]

(***************************************************************************)
(* Inputs: request bodies that validateQuoteRequest accepts.               *)
(***************************************************************************)
MaxProducts == 2

\* A 17-character VIN whose 10th character is the model-year code.
VinOfYear(yearCode) ==
    << "1", "F", "T", "F", "W", "1", "E", "T", "5", yearCode,
       "F", "A", "1", "0", "0", "0", "1" >>

Vins == {VinOfYear("K")}

Zips == {<<9, 0, 2, 1, 0>>, <<6, 0, 6, 0, 1>>}

Mileages == {30000}

Prices == {10, 25000}

ProductTypes == {"vsc", "gap", "tire", "dent"}

ProductLists == UNION {[1..n -> ProductTypes] : n \in 0..MaxProducts}

DealerIds == {Null, "", "none", "D42"}

Bodies ==
    [vin : Vins, zip : Zips, mileage : Mileages, price : Prices,
     products : ProductLists, dealer_id : DealerIds]

\* The bodies of the clients that race on one fingerprint.
RacingBodies ==
    [vin : Vins, zip : {<<6, 0, 6, 0, 1>>}, mileage : Mileages, price : {25000},
     products : {<<"dent">>}, dealer_id : {Null}]

NoBody == EmptyObject

(***************************************************************************)
(* State.                                                                  *)
(***************************************************************************)
VARIABLES
    isConnected,        \* CacheService.isConnected
    connecting,         \* initialize() is awaiting client.connect()
    memoryCacheDefined, \* CacheService.memoryCache has been created
    memoryCache,        \* the Map: key -> value
    timers,             \* pending setTimeout callbacks of set: bag of [key, due]
    redis,              \* the Redis server: key -> [value, expireAt]
    setAt,              \* key -> time of the last cacheService.set that stored it
    now,                \* the clock, in seconds
    pc,                 \* per request: position in getQuotes
    body,               \* per request: req.body after validation
    receivedAt,         \* per request: when the request arrived
    providerPromises,   \* per request: provider id -> state of its promise
    res,                \* per request: what was sent
    outcomes            \* per request: calls of res.json and of next(error) so far

vars == << isConnected, connecting, memoryCacheDefined, memoryCache, timers, redis,
           setAt, now, pc, body, receivedAt, providerPromises, res, outcomes >>

cacheVars == << isConnected, connecting, memoryCacheDefined, memoryCache, timers,
                redis, setAt >>

Requests == 1..MaxReq

NotSent == [statusCode |-> 0, json |-> EmptyObject, cached |-> FALSE, at |-> 0,
            key |-> <<>>]

\* Nothing has been sent and nothing handed to the error handler.
NoOutcome == [responses |-> 0, errors |-> 0]

\* res.status(200).json(...) is called once more.
Responded(o) == [o EXCEPT !.responses = @ + 1]

\* next(error) is called once more.
PassedToErrorHandler(o) == [o EXCEPT !.errors = @ + 1]

Init ==
    /\ isConnected = FALSE
    /\ connecting = TRUE
    /\ memoryCacheDefined = FALSE
    /\ memoryCache = EmptyObject
    /\ timers = EmptyBag
    /\ redis = EmptyObject
    /\ setAt = EmptyObject
    /\ now = 0
    /\ pc = [r \in Requests |-> "idle"]
    /\ body = [r \in Requests |-> NoBody]
    /\ receivedAt = [r \in Requests |-> 0]
    /\ providerPromises = [r \in Requests |-> EmptyObject]
    /\ res = [r \in Requests |-> NotSent]
    /\ outcomes = [r \in Requests |-> NoOutcome]

(***************************************************************************)
(* CacheService.                                                           *)
(***************************************************************************)
Put(f, k, v) == [x \in DOMAIN f \cup {k} |-> IF x = k THEN v ELSE f[x]]

Remove(f, k) == [x \in DOMAIN f \ {k} |-> f[x]]

\* client.connect() succeeded, or the client reconnected: the "connect" event.
RedisConnect ==
    /\ ~isConnected
    /\ ~memoryCacheDefined
    /\ isConnected' = TRUE
    /\ connecting' = FALSE
    /\ UNCHANGED << memoryCacheDefined, memoryCache, timers, redis, setAt, now,
                    pc, body, receivedAt, providerPromises, res,
                    outcomes >>

\* client.connect() threw: the catch block of initialize().
RedisUnavailable ==
    /\ connecting
    /\ connecting' = FALSE
    /\ memoryCacheDefined' = TRUE
    /\ memoryCache' = EmptyObject
    /\ isConnected' = FALSE
    /\ UNCHANGED << timers, redis, setAt, now, pc, body, receivedAt,
                    providerPromises, res,
                    outcomes >>

\* The "error" event of a connected client.
RedisError ==
    /\ isConnected
    /\ isConnected' = FALSE
    /\ UNCHANGED << connecting, memoryCacheDefined, memoryCache, timers, redis, setAt,
                    now, pc, body, receivedAt, providerPromises, res,
                    outcomes >>

\* cacheService.get(key): the sequence of at most one value (empty: null).
CacheGet(key) ==
    IF isConnected
    THEN IF key \in DOMAIN redis /\ now < redis[key].expireAt
         THEN << redis[key].value >> ELSE <<>>
    ELSE IF memoryCacheDefined
         THEN IF key \in DOMAIN memoryCache THEN << memoryCache[key] >> ELSE <<>>
         ELSE <<>>

\* Mutant: the timer is armed with ttl * 1000 seconds instead of milliseconds.
TimerDelayInSeconds(ttl) == ttl * 1000

\* The delay of the timer that set arms: ttl * 1000 ms, in seconds.
TimerDelay(ttl) == ttl

\* cacheService.set(key, value, ttl).
CacheSet(key, value, ttl) ==
    IF isConnected
    THEN /\ redis' = Put(redis, key, [value |-> value, expireAt |-> now + ttl])
         /\ setAt' = Put(setAt, key, now)
         /\ UNCHANGED << memoryCache, timers >>
    ELSE IF memoryCacheDefined
         THEN /\ memoryCache' = Put(memoryCache, key, value)
              /\ timers' = timers (+) SetToBag({[key |-> key, due |-> now + TimerDelay(ttl)]})
              /\ setAt' = Put(setAt, key, now)
              /\ UNCHANGED redis
         ELSE UNCHANGED << memoryCache, timers, redis, setAt >>

\* The callback of the timer armed by set: this.memoryCache.delete(key).
TimerFire(t) ==
    /\ BagIn(t, timers)
    /\ t.due <= now
    /\ timers' = timers (-) SetToBag({t})
    /\ memoryCache' = Remove(memoryCache, t.key)
    /\ UNCHANGED << isConnected, connecting, memoryCacheDefined, redis, setAt, now,
                    pc, body, receivedAt, providerPromises, res,
                    outcomes >>

\* Time passes, up to the next timer that is due; Redis drops what has expired.
Tick ==
    /\ now < MaxTime
    /\ \A t \in BagToSet(timers) : t.due > now
    /\ LET dues == {t.due : t \in BagToSet(timers)} \cup {now + TickSeconds}
           next == CHOOSE d \in dues : \A e \in dues : d <= e
       IN  /\ now' = next
           /\ redis' = [k \in {x \in DOMAIN redis : redis[x].expireAt > next} |-> redis[k]]
    /\ UNCHANGED << isConnected, connecting, memoryCacheDefined, memoryCache, timers,
                    setAt, pc, body, receivedAt, providerPromises, res,
                    outcomes >>

(***************************************************************************)
(* POST /api/quotes: validateQuoteRequest, then QuoteController.getQuotes. *)
(***************************************************************************)
Pending == [value |-> "pending"]

Rejected == [value |-> "null"]

Fulfilled(response) == [value |-> "object", quotes |-> response.quotes]

\* res.status(200).json(json); cached, at and key record where the envelope
\* came from, when it was sent and the cache key of the request.
Sent(json, cached, key) ==
    [statusCode |-> 200, json |-> json, cached |-> cached, at |-> now, key |-> key]

\* ApiError.badRequest passed to next(): the errorHandler's envelope.
BadRequest(message) ==
    [statusCode |-> 400,
     json |-> [error |-> [code |-> "BAD_REQUEST", message |-> message]],
     cached |-> FALSE, at |-> now, key |-> <<>>]

\* Two bodies that differ at most in dealer_id.
SameVehicleAndProducts(a, b) ==
    /\ a.vin = b.vin /\ a.zip = b.zip /\ a.mileage = b.mileage
    /\ a.price = b.price /\ a.products = b.products

\* The clients of one behaviour send one vehicle and one product list:
\* requests that differ in them share no cache entry.
OneFingerprint(b) ==
    \A s \in Requests :
        IF body[s] = NoBody THEN TRUE ELSE SameVehicleAndProducts(b, body[s])

\* Mutant: the check looks at the requested list instead of the available one.
HasRequestedProducts(products, state) == Len(products) # 0

\* The restriction check of getQuotes: is any product left for the providers?
HasAvailableProducts(products, state) == Len(availableProducts(products, state)) # 0

\* !vin || !zip || !Array.isArray(products): a string is falsy when empty.
\* (validateQuoteRequest answers such a body in the same way, by
\* next(ApiError.badRequest(...)), before getQuotes is reached.)
MissingField(b) == b.vin = <<>> \/ b.zip = <<>>

\* getQuotes from its start to the call of getQuotesFromAllProviders: the
\* check of the fields, the cache lookup, the vehicle and state lookups, the
\* state restrictions and the fan-out to the eligible providers.
PostQuotes(r, b) ==
    /\ pc[r] \in {"idle", "done"}
    /\ body' = [body EXCEPT ![r] = b]
    /\ receivedAt' = [receivedAt EXCEPT ![r] = now]
    /\ LET cachedQuotes   == CacheGet(cacheKey(b))
           vehicleDetails == getVehicleDetails(b.vin)
           state          == getStateFromZip(b.zip)
           restricted     == stateRestrictedProducts(b.products, state)
           available      == availableProducts(b.products, state)
           request        == providerRequest(b, vehicleDetails, state, available)
           eligible       == getEligibleProviders(request.options.products)
       IN  IF MissingField(b)
           THEN /\ res' = [res EXCEPT ![r] =
                             BadRequest("VIN, ZIP, and product list are required.")]
                /\ outcomes' = [outcomes EXCEPT ![r] = PassedToErrorHandler(NoOutcome)]
                /\ pc' = [pc EXCEPT ![r] = "done"]
                /\ providerPromises' = [providerPromises EXCEPT ![r] = EmptyObject]
           ELSE IF Len(cachedQuotes) > 0
           THEN /\ res' = [res EXCEPT ![r] = Sent(Parse(cachedQuotes[1]), TRUE, cacheKey(b))]
                /\ outcomes' = [outcomes EXCEPT ![r] = Responded(NoOutcome)]
                /\ pc' = [pc EXCEPT ![r] = "done"]
                /\ providerPromises' = [providerPromises EXCEPT ![r] = EmptyObject]
           ELSE IF ~vehicleDetails.found
           THEN /\ res' = [res EXCEPT ![r] =
                             BadRequest("Invalid VIN or vehicle details not found")]
                /\ outcomes' = [outcomes EXCEPT ![r] = PassedToErrorHandler(NoOutcome)]
                /\ pc' = [pc EXCEPT ![r] = "done"]
                /\ providerPromises' = [providerPromises EXCEPT ![r] = EmptyObject]
           ELSE IF ~HasAvailableProducts(b.products, state)
           THEN /\ res' = [res EXCEPT ![r] =
                             Sent(IneligibleResponse(restricted, state), FALSE, cacheKey(b))]
                /\ outcomes' = [outcomes EXCEPT ![r] = Responded(NoOutcome)]
                /\ pc' = [pc EXCEPT ![r] = "done"]
                /\ providerPromises' = [providerPromises EXCEPT ![r] = EmptyObject]
           ELSE /\ res' = [res EXCEPT ![r] = NotSent]
                /\ outcomes' = [outcomes EXCEPT ![r] = NoOutcome]
                /\ pc' = [pc EXCEPT ![r] = "fanout"]
                /\ providerPromises' = [providerPromises EXCEPT ![r] =
                                          [p \in Range(eligible) |-> Pending]]
    /\ UNCHANGED << cacheVars, now >>

\* The request handed to the providers of request r.
RequestOf(r) ==
    LET state == getStateFromZip(body[r].zip)
    IN  providerRequest(body[r], getVehicleDetails(body[r].vin), state,
                        availableProducts(body[r].products, state))

\* getQuotesFromProvider(p, request) resolves.
ProviderResolve(r, p) ==
    /\ pc[r] = "fanout"
    /\ p \in DOMAIN providerPromises[r]
    /\ providerPromises[r][p] = Pending
    /\ providerPromises' = [providerPromises EXCEPT ![r][p] =
                              Fulfilled(simulateProviderResponse(p, RequestOf(r)))]
    /\ UNCHANGED << cacheVars, now, pc, body, receivedAt, res, outcomes >>

\* getQuotesFromProvider(p, request) throws: the .catch returns null.
ProviderReject(r, p) ==
    /\ pc[r] = "fanout"
    /\ p \in DOMAIN providerPromises[r]
    /\ providerPromises[r][p] = Pending
    /\ providerPromises' = [providerPromises EXCEPT ![r][p] = Rejected]
    /\ UNCHANGED << cacheVars, now, pc, body, receivedAt, res, outcomes >>

\* Mutant: the aggregator returns as soon as one provider call has settled.
AnyProviderSettled(r) == \E p \in DOMAIN providerPromises[r] : providerPromises[r][p] # Pending

\* Mutant: the aggregator waits for every call to succeed.
AllProvidersFulfilled(r) ==
    \A p \in DOMAIN providerPromises[r] : providerPromises[r][p].value = "object"

\* Promise.all(Object.values(providerPromises)) has a value.
AllProvidersSettled(r) == \A p \in DOMAIN providerPromises[r] : providerPromises[r][p] # Pending

\* The response getQuotes computes from the provider results of request r.
ComputedResponse(r) ==
    EligibleResponse(body[r], getStateFromZip(body[r].zip), providerPromises[r],
                     getEligibleProviders(RequestOf(r).options.products))

\* getQuotes from the return of getQuotesFromAllProviders to the end: merge,
\* sort, tag, cacheService.set and the response.
AllSettled(r) ==
    /\ pc[r] = "fanout"
    /\ AllProvidersSettled(r)
    /\ CacheSet(cacheKey(body[r]), Stringify(ComputedResponse(r)), 600)
    /\ res' = [res EXCEPT ![r] = Sent(ComputedResponse(r), FALSE, cacheKey(body[r]))]
    /\ outcomes' = [outcomes EXCEPT ![r] = Responded(@)]
    /\ pc' = [pc EXCEPT ![r] = "done"]
    /\ UNCHANGED << isConnected, connecting, memoryCacheDefined, now, body, receivedAt,
                    providerPromises >>

(***************************************************************************)
(* Specifications.                                                         *)
(***************************************************************************)
\* The whole service: clients racing on one fingerprint, the clock, the
\* cache in any of its modes.
Next ==
    \/ \E r \in Requests, b \in RacingBodies : PostQuotes(r, b)
    \/ \E r \in Requests, p \in Range(ProviderKeys) : ProviderResolve(r, p)
    \/ \E r \in Requests, p \in Range(ProviderKeys) : ProviderReject(r, p)
    \/ \E r \in Requests : AllSettled(r)
    \/ \E t \in BagToSet(timers) : TimerFire(t)
    \/ Tick
    \/ RedisConnect
    \/ RedisUnavailable
    \/ RedisError

Spec == Init /\ [][Next]_vars

\* The state once initialize() has caught the failure of client.connect():
\* the in-memory fallback.
InitFallback ==
    /\ isConnected = FALSE
    /\ connecting = FALSE
    /\ memoryCacheDefined = TRUE
    /\ memoryCache = EmptyObject
    /\ timers = EmptyBag
    /\ redis = EmptyObject
    /\ setAt = EmptyObject
    /\ now = 0
    /\ pc = [r \in Requests |-> "idle"]
    /\ body = [r \in Requests |-> NoBody]
    /\ receivedAt = [r \in Requests |-> 0]
    /\ providerPromises = [r \in Requests |-> EmptyObject]
    /\ res = [r \in Requests |-> NotSent]
    /\ outcomes = [r \in Requests |-> NoOutcome]

NextFallback ==
    \/ \E r \in Requests, b \in RacingBodies : PostQuotes(r, b)
    \/ \E r \in Requests, p \in Range(ProviderKeys) : ProviderResolve(r, p)
    \/ \E r \in Requests, p \in Range(ProviderKeys) : ProviderReject(r, p)
    \/ \E r \in Requests : AllSettled(r)
    \/ \E t \in BagToSet(timers) : TimerFire(t)
    \/ Tick

SpecFallback == InitFallback /\ [][NextFallback]_vars

\* One client that submits any accepted body and re-submits it, possibly
\* under another dealer_id, within the lifetime of the cache entries.
OneClient == {1}

NextQuotes ==
    \/ \E r \in OneClient, b \in Bodies : OneFingerprint(b) /\ PostQuotes(r, b)
    \/ \E r \in OneClient, p \in Range(ProviderKeys) : ProviderResolve(r, p)
    \/ \E r \in OneClient, p \in Range(ProviderKeys) : ProviderReject(r, p)
    \/ \E r \in OneClient : AllSettled(r)

SpecQuotes == InitFallback /\ [][NextQuotes]_vars

\* One client that asks for the same two products in either order.
ReorderedBodies ==
    [vin : Vins, zip : {<<6, 0, 6, 0, 1>>}, mileage : Mileages, price : {25000},
     products : {<<"tire", "dent">>, <<"dent", "tire">>, <<"vsc", "gap">>, <<"gap", "vsc">>},
     dealer_id : {Null}]

\* s is t in another order (or t itself).
Reordered(s, t) ==
    /\ Len(s) = Len(t)
    /\ \A x \in Range(s) \cup Range(t) :
           Cardinality({i \in 1..Len(s) : s[i] = x})
             = Cardinality({i \in 1..Len(t) : t[i] = x})

\* The requests of one behaviour name one vehicle and the same products.
OneProductSet(b) ==
    \A s \in Requests :
        IF body[s] = NoBody THEN TRUE
        ELSE /\ b.vin = body[s].vin /\ b.zip = body[s].zip
             /\ b.mileage = body[s].mileage /\ b.price = body[s].price
             /\ Reordered(b.products, body[s].products)

NextReordered ==
    \/ \E r \in OneClient, b \in ReorderedBodies : OneProductSet(b) /\ PostQuotes(r, b)
    \/ \E r \in OneClient, p \in Range(ProviderKeys) : ProviderResolve(r, p)
    \/ \E r \in OneClient, p \in Range(ProviderKeys) : ProviderReject(r, p)
    \/ \E r \in OneClient : AllSettled(r)

SpecReordered == InitFallback /\ [][NextReordered]_vars

\* Clients that race on one cache key, without dealer_id or with the dealer
\* id "none".
DealerRaceBodies ==
    [vin : Vins, zip : {<<6, 0, 6, 0, 1>>}, mileage : Mileages, price : {25000},
     products : {<<"gap">>}, dealer_id : {Null, "none"}]

NextDealerRace ==
    \/ \E r \in Requests, b \in DealerRaceBodies : PostQuotes(r, b)
    \/ \E r \in Requests, p \in Range(ProviderKeys) : ProviderResolve(r, p)
    \/ \E r \in Requests, p \in Range(ProviderKeys) : ProviderReject(r, p)
    \/ \E r \in Requests : AllSettled(r)

SpecDealerRace == InitFallback /\ [][NextDealerRace]_vars

\* One client that asks for a service contract, for vehicles of the model
\* years and mileages around the thresholds of the VSC generator.
VscYearCodes == {"A", "D", "E", "F", "G", "H", "J", "K", "R"}

VscMileages == {0, 85000, 85001, 100000, 100001, 120000, 120001, 150000, 150001, 200000}

VscBodies ==
    [vin : {VinOfYear(c) : c \in VscYearCodes}, zip : {<<6, 0, 6, 0, 1>>},
     mileage : VscMileages, price : {25000}, products : {<<"vsc">>}, dealer_id : {Null}]

NextVsc ==
    \/ \E r \in OneClient, b \in VscBodies : OneFingerprint(b) /\ PostQuotes(r, b)
    \/ \E r \in OneClient, p \in Range(ProviderKeys) : ProviderResolve(r, p)
    \/ \E r \in OneClient, p \in Range(ProviderKeys) : ProviderReject(r, p)
    \/ \E r \in OneClient : AllSettled(r)

SpecVsc == InitFallback /\ [][NextVsc]_vars

\* Clients on every path of getQuotes: a missing VIN, a VIN of the wrong
\* length, a request whose only product is restricted, an eligible request,
\* and their repetitions. Every provider call settles and the handler
\* resumes once Promise.all has a value.
ShortVin == << "1", "F", "T" >>

OutcomeBodies ==
    [vin : {VinOfYear("K"), ShortVin, <<>>}, zip : {<<9, 0, 2, 1, 0>>},
     mileage : Mileages, price : {25000}, products : {<<"dent">>, <<"gap">>},
     dealer_id : {Null}]

NextOutcome ==
    \/ \E r \in Requests, b \in OutcomeBodies : PostQuotes(r, b)
    \/ \E r \in Requests, p \in Range(ProviderKeys) : ProviderResolve(r, p)
    \/ \E r \in Requests, p \in Range(ProviderKeys) : ProviderReject(r, p)
    \/ \E r \in Requests : AllSettled(r)

\* One of the provider calls of request r settles.
CallSettles(r) ==
    \E p \in Range(ProviderKeys) : ProviderResolve(r, p) \/ ProviderReject(r, p)

\* The handler of request r resumes after Promise.all and cacheService.set:
\* the AllSettled(r) steps are the steps that take pc[r] from "fanout" to
\* "done", and they are possible exactly when the guard of AllSettled(r) holds.
Resumes(r) ==
    /\ pc[r] = "fanout"
    /\ AllProvidersSettled(r)
    /\ pc' = [pc EXCEPT ![r] = "done"]

CallsSettle ==
    \A r \in Requests : WF_vars(CallSettles(r)) /\ WF_pc(Resumes(r))

SpecOutcome == InitFallback /\ [][NextOutcome]_vars /\ CallsSettle

(***************************************************************************)
(* Vocabulary of the properties.                                           *)
(***************************************************************************)
\* Request r has been answered with a 200 envelope.
Answered(r) == pc[r] = "done" /\ res[r].statusCode = 200

\* ... and the envelope was computed by this request, not read from the cache.
Computed(r) == Answered(r) /\ ~res[r].cached

Envelope(r) == res[r].json

ResolvedState(r) == getStateFromZip(body[r].zip)

\* The requested products that the static mapping restricts in the resolved state.
RestrictedRequested(r) ==
    {p \in Range(body[r].products) : IsRestricted(p, ResolvedState(r))}

\* The requested products that remain.
RemainingRequested(r) == Range(body[r].products) \ RestrictedRequested(r)

\* meta.state_restrictions.restricted_products, empty when the property is absent.
ReportedRestricted(r) ==
    IF "restricted_products" \in DOMAIN Envelope(r).meta.state_restrictions
    THEN Range(Envelope(r).meta.state_restrictions.restricted_products)
    ELSE {}

BucketKeys(r) == DOMAIN Envelope(r).buckets

\* The positions of a bucket that carry a tag.
Tagged(quotes, tag) == {i \in 1..Len(quotes) : Includes(quotes[i].tags, tag)}

\* How many quotes of a sequence come from a provider (ids start with the provider id).
CountFrom(quotes, providerId, idOf(_)) ==
    Cardinality({i \in 1..Len(quotes) : idOf(quotes[i])[1] = providerId})

DisplayId(q) == q.id

RawId(q) == q.product_id

(***************************************************************************)
(* C1: a request whose requested products are all restricted in the        *)
(* resolved state, or whose product list is empty, calls no provider and   *)
(* is answered 200 with vehicle_eligibility "ineligible" and no bucket.    *)
(***************************************************************************)
IneligibleShortCircuit ==
    \A r \in Requests :
        (body[r] # NoBody /\ RemainingRequested(r) = {}) =>
            /\ DOMAIN providerPromises[r] = {}
            /\ pc[r] = "done"
            /\ res[r].statusCode = 200
            /\ Envelope(r).meta.vehicle_eligibility = "ineligible"
            /\ BucketKeys(r) = {}

\* A request for products that are all restricted has been answered.
IneligibleWitness ==
    \E r \in Requests :
        /\ Answered(r)
        /\ body[r].products # <<>>
        /\ RemainingRequested(r) = {}
        /\ Envelope(r).meta.vehicle_eligibility = "ineligible"

(***************************************************************************)
(* C2: in every response restricted_products is exactly the set of         *)
(* requested products restricted in the resolved state, reported with that *)
(* state, and none of them is a bucket key.                                *)
(***************************************************************************)
RestrictedProductsExact ==
    \A r \in Requests :
        Answered(r) =>
            /\ ReportedRestricted(r) = RestrictedRequested(r)
            /\ ReportedRestricted(r) \cap BucketKeys(r) = {}
            /\ RestrictedRequested(r) # {} =>
                   Envelope(r).meta.state_restrictions.state = ResolvedState(r)

\* The example of the specification: vsc and gap requested in CA.
RestrictedProductsWitness ==
    \E r \in Requests :
        /\ Answered(r)
        /\ body[r].products = <<"vsc", "gap">>
        /\ ResolvedState(r) = "CA"
        /\ BucketKeys(r) = {"vsc"}
        /\ ReportedRestricted(r) = {"gap"}

(***************************************************************************)
(* C3: whatever providers fail, an eligible request is answered 200: a     *)
(* failed provider contributes no quote and every quote of a provider that *)
(* succeeded is in the response.                                           *)
(***************************************************************************)
FailuresAbsorbed ==
    \A r \in Requests :
        /\ (body[r] # NoBody /\ RemainingRequested(r) # {}) => res[r].statusCode \in {0, 200}
        /\ (Computed(r) /\ RemainingRequested(r) # {}) =>
               \A p \in DOMAIN providerPromises[r] :
                   \A product \in RemainingRequested(r) :
                       /\ product \in BucketKeys(r)
                       /\ CountFrom(Envelope(r).buckets[product], p, DisplayId)
                            = IF providerPromises[r][p] = Rejected THEN 0
                              ELSE CountFrom(SelectSeq(providerPromises[r][p].quotes,
                                                       LAMBDA q : q.product_type = product),
                                             p, RawId)

\* A request was answered although one provider failed and another returned quotes.
FailuresAbsorbedWitness ==
    \E r \in Requests :
        /\ Computed(r)
        /\ \E p \in DOMAIN providerPromises[r] : providerPromises[r][p] = Rejected
        /\ \E p \in DOMAIN providerPromises[r], product \in BucketKeys(r) :
               /\ providerPromises[r][p].value = "object"
               /\ CountFrom(Envelope(r).buckets[product], p, DisplayId) > 0

(***************************************************************************)
(* C5: every bucket is in ascending order of price, and quotes of equal    *)
(* price keep the fan-out order: providers by ascending priority, each     *)
(* provider's quotes in the order it generated them.                       *)
(***************************************************************************)
\* Provider ids by ascending priority.
ByPriority ==
    [k \in 1..Len(ProviderKeys) |->
        CHOOSE p \in Range(ProviderKeys) : providers[p].priority = k]

\* <<id, price in cents>> of the quotes of `product` that the providers of
\* request r returned, in fan-out order.
FanoutOf(r, product) ==
    Concat([k \in 1..Len(ByPriority) |->
        LET p == ByPriority[k]
        IN  IF p \in DOMAIN providerPromises[r] /\ providerPromises[r][p].value = "object"
            THEN LET mine == SelectSeq(providerPromises[r][p].quotes,
                                       LAMBDA q : q.product_type = product)
                 IN  [i \in 1..Len(mine) |->
                        << mine[i].product_id, mine[i].retail_price * providers[p].markup >>]
            ELSE <<>>])

IdAndPrice(quotes) == [i \in 1..Len(quotes) |-> << quotes[i].id, quotes[i].price >>]

PriceOrderStable ==
    \A r \in Requests :
        Answered(r) =>
            \A product \in BucketKeys(r) :
                LET quotes == Envelope(r).buckets[product]
                IN  /\ \A i \in 1..(Len(quotes) - 1) : quotes[i].price <= quotes[i + 1].price
                    /\ Computed(r) =>
                         \A v \in {quotes[i].price : i \in 1..Len(quotes)} :
                             SelectSeq(IdAndPrice(quotes), LAMBDA x : x[2] = v)
                               = SelectSeq(FanoutOf(r, product), LAMBDA x : x[2] = v)

\* A computed bucket holds two different quotes of equal price (a vehicle
\* price of 10 gives every GAP quote the retail price 0).
PriceOrderWitness ==
    \E r \in Requests :
        /\ Computed(r)
        /\ \E product \in BucketKeys(r) :
             LET quotes == Envelope(r).buckets[product]
             IN  \E i, j \in 1..Len(quotes) :
                   /\ i < j
                   /\ quotes[i].price = quotes[j].price
                   /\ quotes[i].id # quotes[j].id

(***************************************************************************)
(* C6: the price of every quote of a response is the retail_price of the   *)
(* provider's quote times the provider's markup, to 2 decimal places.      *)
(***************************************************************************)
PriceIsMarkedUpRetail ==
    \A r \in Requests :
        Answered(r) =>
            \A product \in BucketKeys(r) :
                \A i \in 1..Len(Envelope(r).buckets[product]) :
                    LET quote == Envelope(r).buckets[product][i]
                        p     == quote.id[1]
                        raws  == simulateProviderResponse(p, RequestOf(r)).quotes
                    IN  \E j \in 1..Len(raws) :
                          /\ raws[j].product_id = quote.id
                          /\ quote.price = raws[j].retail_price * providers[p].markup

\* A response holds a quote whose price is not a whole amount: 395 * 1.15 = 454.25.
PriceWitness ==
    \E r \in Requests :
        /\ Answered(r)
        /\ \E product \in BucketKeys(r) :
             \E i \in 1..Len(Envelope(r).buckets[product]) :
                 Envelope(r).buckets[product][i].price = 45425

(***************************************************************************)
(* C7: in every non-empty bucket exactly the quote at index 0 carries      *)
(* "Best Value" and exactly the quote at index min(1, length - 1) carries  *)
(* "Most Popular".                                                         *)
(***************************************************************************)
BestValueAndMostPopular ==
    \A r \in Requests :
        Answered(r) =>
            \A product \in BucketKeys(r) :
                LET quotes == Envelope(r).buckets[product]
                    once(i, tag) ==
                        Cardinality({k \in 1..Len(quotes[i].tags) : quotes[i].tags[k] = tag}) = 1
                IN  Len(quotes) > 0 =>
                      /\ Tagged(quotes, "Best Value") = {1}
                      /\ Tagged(quotes, "Most Popular") = {Min2(1, Len(quotes) - 1) + 1}
                      /\ once(1, "Best Value")
                      /\ once(Min2(1, Len(quotes) - 1) + 1, "Most Popular")

\* A bucket with a single quote carries both tags on it.
SingleQuoteWitness ==
    \E r \in Requests :
        /\ Answered(r)
        /\ \E product \in BucketKeys(r) :
             /\ Len(Envelope(r).buckets[product]) = 1
             /\ Envelope(r).buckets[product][1].tags = <<"Best Value", "Most Popular">>

(***************************************************************************)
(* C4: of two requests with the same fingerprint, the second made after    *)
(* the first was answered and less than 600 s after it, the second is      *)
(* answered exactly as the first, also when a provider failed during the   *)
(* first.                                                                  *)
(***************************************************************************)
SameFingerprintSameResponse ==
    \A r1, r2 \in Requests :
        ( /\ Answered(r1) /\ Answered(r2)
          /\ res[r1].key = res[r2].key
          /\ res[r1].at < receivedAt[r2]
          /\ receivedAt[r2] < res[r1].at + redisConfigTtl )
        => Envelope(r2) = Envelope(r1)

(***************************************************************************)
(* C8: a bucket carries "Dealer Recommended" exactly when a dealer         *)
(* identifier was supplied and the bucket has more than 2 quotes, and then *)
(* on the quote at index 2 only.                                           *)
(***************************************************************************)
DealerRecommendedExact ==
    \A r \in Requests :
        Answered(r) =>
            \A product \in BucketKeys(r) :
                LET quotes == Envelope(r).buckets[product]
                IN  Tagged(quotes, "Dealer Recommended")
                      = IF Truthy(body[r].dealer_id) /\ Len(quotes) > 2 THEN {3} ELSE {}

(***************************************************************************)
(* C9: a cache entry is not returned by cacheService.get once more than    *)
(* 600 seconds have passed since the set that stored it.                   *)
(***************************************************************************)
CachedKeys == DOMAIN setAt

EntriesExpire ==
    \A key \in CachedKeys :
        CacheGet(key) # <<>> => now <= setAt[key] + redisConfigTtl

\* 600 seconds after a set into the in-memory map the timer has removed the entry.
EntriesExpireWitness ==
    \E key \in CachedKeys :
        /\ memoryCacheDefined
        /\ now = setAt[key] + redisConfigTtl
        /\ CacheGet(key) = <<>>

(***************************************************************************)
(* C10: meta.state_restrictions is the empty object when no requested      *)
(* product was restricted and {restricted_products, state} otherwise, in   *)
(* the eligible and in the ineligible envelope.                            *)
(***************************************************************************)
StateRestrictionsShape ==
    \A r \in Requests :
        Answered(r) =>
            Envelope(r).meta.state_restrictions
              = IF RestrictedRequested(r) = {} THEN EmptyObject
                ELSE [restricted_products |->
                        SelectSeq(body[r].products,
                                  LAMBDA p : IsRestricted(p, ResolvedState(r))),
                      state |-> ResolvedState(r)]

(***************************************************************************)
(* C11: the product keys of an eligible envelope are exactly the requested *)
(* products that are not restricted, a product without quotes having the   *)
(* empty list, and every quote is in the bucket of its own product type    *)
(* and in no other.                                                        *)
(***************************************************************************)
Eligible(r) == Answered(r) /\ Envelope(r).meta.vehicle_eligibility = "eligible"

\* The product type of a quote of the response: the second part of its id.
TypeOf(q) == q.id[2]

BucketsAreAvailableProducts ==
    \A r \in Requests :
        Eligible(r) =>
            /\ BucketKeys(r) = RemainingRequested(r)
            /\ \A product \in BucketKeys(r) :
                   \A i \in 1..Len(Envelope(r).buckets[product]) :
                       TypeOf(Envelope(r).buckets[product][i]) = product

\* Two products were available; the providers of one of them all failed, so
\* its bucket is the empty list, and the other bucket has quotes.
EmptyBucketWitness ==
    \E r \in Requests :
        /\ Computed(r)
        /\ Eligible(r)
        /\ \E empty, full \in BucketKeys(r) :
               /\ Envelope(r).buckets[empty] = <<>>
               /\ Len(Envelope(r).buckets[full]) > 0

(***************************************************************************)
(* C12: every response that getQuotes computes on a cache miss, the        *)
(* ineligible envelope included, has been serialized and stored under the  *)
(* key of the request with a lifetime of 600 seconds when it is returned.  *)
(***************************************************************************)
\* The entry of request r's key holds r's response and expires 600 s after r
\* was answered.
StoredFor(r) ==
    /\ CacheGet(res[r].key) = << Stringify(Envelope(r)) >>
    /\ \E t \in BagToSet(timers) :
           t.key = res[r].key /\ t.due = res[r].at + redisConfigTtl

MissWritesCache ==
    \A r \in Requests : Computed(r) => StoredFor(r)

(***************************************************************************)
(* C13: while a provider call of a request is pending the request has no   *)
(* response; the response of an eligible request computed on a miss comes  *)
(* after the call to every eligible provider has settled, in whatever      *)
(* order they settle.                                                      *)
(***************************************************************************)
PendingCalls(r) == {p \in DOMAIN providerPromises[r] : providerPromises[r][p] = Pending}

RespondsAfterAllSettled ==
    \A r \in Requests :
        /\ PendingCalls(r) # {} => (pc[r] = "fanout" /\ res[r] = NotSent)
        /\ (Computed(r) /\ Eligible(r)) =>
               /\ DOMAIN providerPromises[r]
                    = Range(getEligibleProviders(RequestOf(r).options.products))
               /\ PendingCalls(r) = {}

\* A request with three provider calls, settled with both outcomes, was answered.
JoinWitness ==
    \E r \in Requests :
        /\ Computed(r)
        /\ Cardinality(DOMAIN providerPromises[r]) >= 3
        /\ \E p, q \in DOMAIN providerPromises[r] :
               /\ providerPromises[r][p] = Rejected
               /\ providerPromises[r][q].value = "object"

(***************************************************************************)
(* C14: the providers called for a request are exactly those that support  *)
(* at least one of the requested products left after the state             *)
(* restriction; a provider that supports none of them is never called.     *)
(***************************************************************************)
Called(r) == DOMAIN providerPromises[r]

SupportsRemaining(r) ==
    {p \in Range(ProviderKeys) : Range(providers[p].products) \cap RemainingRequested(r) # {}}

CalledProvidersExact ==
    \A r \in Requests :
        body[r] # NoBody =>
            /\ Called(r) \subseteq SupportsRemaining(r)
            /\ (pc[r] = "fanout" \/ (Computed(r) /\ Eligible(r))) =>
                   Called(r) = SupportsRemaining(r)

\* vsc and gap requested in CA: gap is restricted, the GAP-only Provider C is
\* not called, Provider A and Provider B are.
GapOnlyProviderSkipped ==
    \E r \in Requests :
        /\ Computed(r)
        /\ ResolvedState(r) = "CA"
        /\ Range(body[r].products) = {"vsc", "gap"}
        /\ Called(r) = {"providerA", "providerB"}

(***************************************************************************)
(* C15: for a vehicle of age a (current year minus model year) and         *)
(* mileage m a provider's VSC generator returns nothing when a > 12 or     *)
(* m > 150000, and otherwise one quote for each tier whose thresholds      *)
(* hold: Premium iff a <= 7 and m <= 85000, Standard iff a <= 10 and       *)
(* m <= 100000, Basic iff a <= 12 and m <= 120000.                         *)
(***************************************************************************)
VehicleAge(r) == currentYear - getVehicleDetails(body[r].vin).year

ExpectedVscTiers(a, m) ==
    IF a > 12 \/ m > 150000 THEN {}
    ELSE (IF a <= 7 /\ m <= 85000 THEN {"premium_36_36"} ELSE {})
         \cup (IF a <= 10 /\ m <= 100000 THEN {"standard_48_48"} ELSE {})
         \cup (IF a <= 12 /\ m <= 120000 THEN {"basic_60_60"} ELSE {})

\* The tiers of the VSC quotes that provider p returned to request r.
VscTiers(r, p) ==
    LET vsc == SelectSeq(providerPromises[r][p].quotes, LAMBDA q : q.product_type = "vsc")
    IN  [i \in 1..Len(vsc) |-> vsc[i].product_id[3]]

VscTiersByThreshold ==
    \A r \in Requests :
        \A p \in DOMAIN providerPromises[r] :
            (providerPromises[r][p].value = "object" /\ body[r].products = <<"vsc">>) =>
                /\ Range(VscTiers(r, p)) = ExpectedVscTiers(VehicleAge(r), body[r].mileage)
                /\ Len(VscTiers(r, p))
                     = Cardinality(ExpectedVscTiers(VehicleAge(r), body[r].mileage))

\* A vehicle of age 8 with 100000 miles gets Standard and Basic, not Premium.
VscTwoTiersWitness ==
    \E r \in Requests :
        /\ Computed(r)
        /\ VehicleAge(r) = 8
        /\ body[r].mileage = 100000
        /\ \E p \in DOMAIN providerPromises[r] :
               /\ providerPromises[r][p].value = "object"
               /\ VscTiers(r, p) = <<"standard_48_48", "basic_60_60">>

(***************************************************************************)
(* C16: the cache key depends on the order of the product list: a request  *)
(* whose product list has been stored only in another order, all other     *)
(* fields being equal, misses the cache and is recomputed.                 *)
(***************************************************************************)
\* This step is getQuotes receiving a request of client r.
Posted(r) ==
    /\ pc[r] \in {"idle", "done"}
    /\ << pc[r], body[r], res[r] >> # << pc'[r], body'[r], res'[r] >>

\* The cache keys whose product part is exactly this list.
KeysOfOrder(products) == {k \in DOMAIN memoryCache : k[6] = products}

ReorderedRequestMisses ==
    [][\A r \in Requests :
          (Posted(r) /\ KeysOfOrder(body'[r].products) = {}) =>
              (pc'[r] = "fanout" /\ res'[r] = NotSent)]_vars

\* The response to the last request was computed although the cache held an
\* entry for the same request with the two products in the other order.
ReorderedWitness ==
    \E r \in Requests :
        /\ Computed(r)
        /\ Cardinality(Range(body[r].products)) >= 2
        /\ \E k \in DOMAIN memoryCache :
               /\ k # res[r].key
               /\ Reordered(k[6], body[r].products)
               /\ [k EXCEPT ![6] = body[r].products] = res[r].key

(***************************************************************************)
(* C17: concurrent requests with the same fingerprint that all miss the    *)
(* cache and all compute return the same response and write the same       *)
(* value, so the entry left in the cache is the response of each of them.  *)
(***************************************************************************)
\* r1 and r2 were both computed for one key and each arrived before the
\* other was answered.
ComputedConcurrently(r1, r2) ==
    /\ Computed(r1) /\ Computed(r2)
    /\ res[r1].key = res[r2].key
    /\ receivedAt[r1] <= res[r2].at
    /\ receivedAt[r2] <= res[r1].at

ConcurrentWritesAgree ==
    \A r1, r2 \in Requests :
        ComputedConcurrently(r1, r2) =>
            /\ Envelope(r1) = Envelope(r2)
            /\ CacheGet(res[r1].key) # <<>> =>
                   CacheGet(res[r1].key) = << Stringify(Envelope(r1)) >>

(***************************************************************************)
(* C18: the cache key determines the response: any accepted body with the  *)
(* key of a request, computed on a miss with the provider outcomes of that *)
(* request, gives the envelope that request got.                           *)
(***************************************************************************)
\* The accepted bodies that have the cache key of request r.
SameKeyBodies(r) ==
    {b \in {[body[r] EXCEPT !.dealer_id = d] : d \in DealerIds} :
        cacheKey(b) = cacheKey(body[r])}

FingerprintDeterminesResponse ==
    \A r \in Requests :
        (Computed(r) /\ Eligible(r)) =>
            \A b \in SameKeyBodies(r) :
                EligibleResponse(b, ResolvedState(r), providerPromises[r],
                                 getEligibleProviders(RequestOf(r).options.products))
                  = Envelope(r)

(***************************************************************************)
(* C19: no two quotes of a bucket have the same id, whatever accepted      *)
(* product list was sent, lists naming a product more than once included.  *)
(***************************************************************************)
NoDuplicateIds ==
    \A r \in Requests :
        Answered(r) =>
            \A product \in BucketKeys(r) :
                LET quotes == Envelope(r).buckets[product]
                IN  \A i, j \in 1..Len(quotes) : i # j => quotes[i].id # quotes[j].id

(***************************************************************************)
(* C20: in the in-memory fallback mode a value stored by set(key, value,   *)
(* ttl) is returned by get(key) at every moment before ttl seconds have    *)
(* passed since that set, also when the timer of an earlier set of the     *)
(* same key fires in between.                                              *)
(***************************************************************************)
FallbackKeepsValueUntilTtl ==
    \A key \in CachedKeys :
        (memoryCacheDefined /\ ~isConnected /\ now < setAt[key] + redisConfigTtl) =>
            CacheGet(key) # <<>>

(***************************************************************************)
(* C21: every request handled by getQuotes ends in exactly one outcome,    *)
(* one 200 response or one error passed to the error handler: never two,   *)
(* never both, and, every provider call and cache operation settling,      *)
(* never none.                                                             *)
(***************************************************************************)
OutcomeCount(r) == outcomes[r].responses + outcomes[r].errors

OneOutcomeAtMost ==
    \A r \in Requests :
        /\ OutcomeCount(r) <= 1
        /\ pc[r] = "fanout" => OutcomeCount(r) = 0
        /\ pc[r] = "done" =>
               /\ OutcomeCount(r) = 1
               /\ outcomes[r].responses = 1 <=> res[r].statusCode = 200
               /\ outcomes[r].errors = 1 <=> res[r].statusCode = 400

ExactlyOneOutcome ==
    /\ []OneOutcomeAtMost
    /\ \A r \in Requests : (pc[r] = "fanout") ~> (pc[r] = "done" /\ OutcomeCount(r) = 1)

\* One request ended in the error handler and another, one of whose
\* providers failed, in a 200 response.
BothOutcomesWitness ==
    \E r1, r2 \in Requests :
        /\ pc[r1] = "done" /\ outcomes[r1] = [responses |-> 0, errors |-> 1]
        /\ Computed(r2) /\ outcomes[r2] = [responses |-> 1, errors |-> 0]
        /\ \E p \in DOMAIN providerPromises[r2] : providerPromises[r2][p] = Rejected

====
